---- MODULE Spec2Model ----
(***************************************************************************)
(* Counterfactual regret minimisation solvers of luca-miniati/game_theory. *)
(*                                                                         *)
(* The repository builds one executable per source file.  A behaviour of   *)
(* this model is a run of one of them, chosen by `prog`:                   *)
(*   "kuhn" : src/kuhn.cc, class Solver (train, cfr, compute_expected_     *)
(*            value, get_solution) and the lookups of class Game;          *)
(*   "dudo" : src/dudo.cc, class Solver (train, cfr) and class Node.       *)
(*                                                                         *)
(* C++ strings are sequences of one-character strings, C++ vectors are     *)
(* sequences indexed from 1 (index a of the source is index a+1 here),     *)
(* and a double is an exact rational <<numerator, denominator>> in lowest  *)
(* terms with a positive denominator, so rounding is not modelled.         *)
(* The call stack of the recursive cfr is the sequence `stack`; a Node* is *)
(* an index into `heap`, 0 is nullptr.                                     *)
(***************************************************************************)
EXTENDS Integers, Sequences, FiniteSets, TLC

VARIABLES prog, pc, tree, heap, stack, ret, cards, dice, T, i, util,
          EV, ev_i, ev_cards, solution, looked, lookup, trained, lookups,
          dealt, evaluated, hand, epoch, war, rps

vars == <<prog, pc, tree, heap, stack, ret, cards, dice, T, i, util,
          EV, ev_i, ev_cards, solution, looked, lookup, trained, lookups,
          dealt, evaluated, hand, epoch, war, rps>>

(***************************************************************************)
(* Bounds of the model.                                                    *)
(***************************************************************************)
\* largest argument of Solver::train that is tried
MaxT == 2
\* RAND_MAX of the model: rand() returns a value in 0..RandMax
RandMax == 2
\* number of iterations of train that one run of war.cc or rps.cc makes
MaxIters == 2
\* number of strategy lookups on one Solver
MaxLookups == 1
\* number of cfr frames the call stack of the Dudo solver can hold
StackLimit == 5
\* largest number of claims before Dudo in the histories cfr is started on
MaxClaims == 2

(***************************************************************************)
(* double arithmetic, exact                                                *)
(***************************************************************************)
Abs(n) == IF n < 0 THEN -n ELSE n

RECURSIVE GCD(_, _)
GCD(a, b) == IF b = 0 THEN a ELSE GCD(b, a % b)

Rat(n, d) ==
    LET g == GCD(Abs(n), Abs(d))
        s == IF d < 0 THEN -1 ELSE 1
    IN  <<(s * n) \div g, (s * d) \div g>>

Zero == <<0, 1>>
One == <<1, 1>>
FromInt(n) == <<n, 1>>

RAdd(x, y) == Rat(x[1] * y[2] + y[1] * x[2], x[2] * y[2])
RNeg(x) == <<-x[1], x[2]>>
RSub(x, y) == RAdd(x, RNeg(y))
RMul(x, y) == Rat(x[1] * y[1], x[2] * y[2])
RDiv(x, y) == Rat(x[1] * y[2], x[2] * y[1])
RLt(x, y) == x[1] * y[2] < y[1] * x[2]
RLe(x, y) == x[1] * y[2] <= y[1] * x[2]
RMax(x, y) == IF RLt(x, y) THEN y ELSE x

\* sum of the entries of a vector<double>, accumulated left to right (the
\* sum of the first n - 1 entries is evaluated once, as the value x)
RECURSIVE RSumTo(_, _)
RSumTo(v, n) ==
    IF n = 0 THEN Zero
    ELSE CHOOSE y \in {RAdd(x, v[n]) : x \in {RSumTo(v, n - 1)}} : TRUE
RSum(v) == RSumTo(v, Len(v))

\* the values of rand() / RAND_MAX as a double
RandomUnit == {Rat(k, RandMax) : k \in 0..RandMax}

(***************************************************************************)
(* strings                                                                 *)
(***************************************************************************)
DIGITS == <<"0", "1", "2", "3", "4", "5", "6", "7", "8", "9">>

\* std::to_string of an int in 0..9
to_string(n) == <<DIGITS[n + 1]>>

\* the value of a char converted to int (ASCII)
Ord(c) ==
    CASE c = "D" -> 68
      [] c = "b" -> 98
      [] c = "c" -> 99
      [] OTHER -> 47 + (CHOOSE k \in 1..10 : DIGITS[k] = c)

\* std::string::substr(pos)
substr(s, pos) == SubSeq(s, pos + 1, Len(s))

Reverse(s) == [k \in 1..Len(s) |-> s[Len(s) + 1 - k]]

\* the arrangement left as it is
next_permutation_same(v) == v

\* std::next_permutation: the next arrangement in lexicographic order, the
\* sorted one after the last

next_permutation(v) ==
    LET n == Len(v)
        K == {k \in 1..(n - 1) : v[k] < v[k + 1]}
    IN  IF K = {} THEN Reverse(v)
        ELSE LET k == CHOOSE x \in K : \A y \in K : y <= x
                 l == CHOOSE x \in (k + 1)..n :
                          v[k] < v[x] /\ \A y \in (x + 1)..n : ~(v[k] < v[y])
                 w == [v EXCEPT ![k] = v[l], ![l] = v[k]]
             IN  SubSeq(w, 1, k) \o Reverse(SubSeq(w, k + 1, n))

(***************************************************************************)
(* src/kuhn.cc: the game and class Node                                    *)
(***************************************************************************)
\* ACTIONS of the source (a reserved word here)
ACTIONS_ == <<"c", "b">>
NUM_ACTIONS == Len(ACTIONS_)
TERMINAL_HISTORIES ==
    {<<"c", "c">>, <<"b", "b">>, <<"b", "c">>,
     <<"c", "b", "c">>, <<"c", "b", "b">>}

\* Node::Node: regret_sum and strategy_sum zero, strategy uniform
Node(info_set) ==
    [info_set |-> info_set,
     regret_sum |-> [a \in 1..NUM_ACTIONS |-> Zero],
     strategy |-> [a \in 1..NUM_ACTIONS |-> Rat(1, NUM_ACTIONS)],
     strategy_sum |-> [a \in 1..NUM_ACTIONS |-> Zero]]

is_terminal(node) == substr(node.info_set, 1) \in TERMINAL_HISTORIES

\* get_utility reading the cards of player 1 and player 2 in that order at
\* every history
get_utility_from_p1(node, cs) ==
    LET h == substr(node.info_set, 1)
        t == Len(h)
        c1 == cs[1]
        c2 == cs[2]
    IN  IF substr(h, t - 2) = <<"b", "c">> THEN FromInt(1)
        ELSE IF h = <<"c", "c">>
             THEN (IF c1 > c2 THEN FromInt(1) ELSE FromInt(-1))
             ELSE (IF c1 > c2 THEN FromInt(2) ELSE FromInt(-2))

\* Node::get_utility, called on terminal nodes only
get_utility(node, cs) ==
    LET h == substr(node.info_set, 1)
        t == Len(h)
        c1 == cs[(t % 2) + 1]
        c2 == cs[(1 - (t % 2)) + 1]
    IN  IF substr(h, t - 2) = <<"b", "c">> THEN FromInt(1)
        ELSE IF h = <<"c", "c">>
             THEN (IF c1 > c2 THEN FromInt(1) ELSE FromInt(-1))
             ELSE (IF c1 > c2 THEN FromInt(2) ELSE FromInt(-2))

\* get_strategy normalising the regrets themselves, the clamp at zero left out
get_strategy_unclamped(node, p) ==
    LET pos == node.regret_sum
        norm == RSum(pos)
        strat == [a \in 1..NUM_ACTIONS |->
                     IF RLt(Zero, norm) THEN RDiv(pos[a], norm)
                     ELSE Rat(1, NUM_ACTIONS)]
    IN  [node EXCEPT
           !.strategy = strat,
           !.strategy_sum = [a \in 1..NUM_ACTIONS |->
                                RAdd(node.strategy_sum[a], RMul(p, strat[a]))]]

\* Node::get_strategy: the node after the call; the value returned is its
\* strategy field
get_strategy(node, p) ==
    LET pos == [a \in 1..NUM_ACTIONS |-> RMax(node.regret_sum[a], Zero)]
        norm == RSum(pos)
        strat == [a \in 1..NUM_ACTIONS |->
                     IF RLt(Zero, norm) THEN RDiv(pos[a], norm)
                     ELSE Rat(1, NUM_ACTIONS)]
    IN  [node EXCEPT
           !.strategy = strat,
           !.strategy_sum = [a \in 1..NUM_ACTIONS |->
                                RAdd(node.strategy_sum[a], RMul(p, strat[a]))]]

\* update_regret keeping the sum at zero or above
update_regret_clamped(node, a, v) ==
    [node EXCEPT !.regret_sum[a + 1] = RMax(RAdd(node.regret_sum[a + 1], v), Zero)]

\* Node::update_regret (a is the index of the source, from 0)
update_regret(node, a, v) ==
    [node EXCEPT !.regret_sum[a + 1] = RAdd(node.regret_sum[a + 1], v)]

\* Node::get_average_strategy
get_average_strategy(node) ==
    LET norm == RSum(node.strategy_sum)
    IN  [a \in 1..NUM_ACTIONS |->
            IF RLt(Zero, norm) THEN RDiv(node.strategy_sum[a], norm)
            ELSE Rat(1, NUM_ACTIONS)]

(***************************************************************************)
(* src/kuhn.cc: class Solver                                               *)
(***************************************************************************)
\* get_node making a node on every call
get_node_always_new(tr, hp, info_set) ==
    [tree |-> [k \in DOMAIN tr \cup {info_set} |->
                  IF k = info_set THEN Len(hp) + 1 ELSE tr[k]],
     heap |-> Append(hp, Node(info_set)),
     node |-> Len(hp) + 1]

\* Solver::get_node on the store <<tr, hp>>: the store after the call and
\* the Node* returned
get_node(tr, hp, info_set) ==
    IF info_set \in DOMAIN tr
    THEN [tree |-> tr, heap |-> hp, node |-> tr[info_set]]
    ELSE [tree |-> [k \in DOMAIN tr \cup {info_set} |->
                       IF k = info_set THEN Len(hp) + 1 ELSE tr[k]],
          heap |-> Append(hp, Node(info_set)),
          node |-> Len(hp) + 1]

\* the frame of a call cfr(cards, h, p1, p2) that has not started to run
Call(h, p1, p2) ==
    [stage |-> "call", h |-> h, p1 |-> p1, p2 |-> p2,
     player_idx |-> 0, info_set |-> <<>>, node |-> 0, reach_p |-> Zero,
     strategy |-> <<>>, util |-> <<>>, node_util |-> Zero, a |-> 0]

Top == stack[Len(stack)]
Pop(st) == SubSeq(st, 1, Len(st) - 1)
SetTop(st, f) == [st EXCEPT ![Len(st)] = f]

player_idx_of(h) == Len(h) % 2
info_set_of(cs, h) == to_string(cs[player_idx_of(h) + 1]) \o h
\* reach_p taken from the acting player
reach_p_own(f) == IF player_idx_of(f.h) = 0 THEN f.p1 ELSE f.p2

\* "compute reach probability": that of the player who does not act
reach_p_of(f) == IF player_idx_of(f.h) = 0 THEN f.p2 ELSE f.p1

\* the recursive call with strategy[a] multiplied into the other player's
\* reach probability
ChildCall_swapped(f, a) ==
    IF f.player_idx = 0
    THEN Call(Append(f.h, ACTIONS_[a + 1]), f.p1, RMul(f.p2, f.strategy[a + 1]))
    ELSE Call(Append(f.h, ACTIONS_[a + 1]), RMul(f.p1, f.strategy[a + 1]), f.p2)

\* the recursive call of the loop body for action a of frame f
ChildCall(f, a) ==
    IF f.player_idx = 0
    THEN Call(Append(f.h, ACTIONS_[a + 1]), RMul(f.p1, f.strategy[a + 1]), f.p2)
    ELSE Call(Append(f.h, ACTIONS_[a + 1]), f.p1, RMul(f.p2, f.strategy[a + 1]))

\* util[a] and node_util after the call for action f.a returned r
Folded(f, r) ==
    LET u == RNeg(r)
    IN  [f EXCEPT !.util[f.a + 1] = u,
                  !.node_util = RAdd(f.node_util, RMul(f.strategy[f.a + 1], u))]

\* the loop "update regret for each action" on the node of frame f
RECURSIVE UpdateRegrets(_, _, _)
UpdateRegrets(node, f, n) ==
    IF n = 0 THEN node
    ELSE update_regret(UpdateRegrets(node, f, n - 1), n - 1,
                       RMul(f.reach_p, RSub(f.util[n], f.node_util)))

KuhnFrame ==
    /\ UNCHANGED <<prog, dice, EV, ev_i, ev_cards, solution, looked, lookup, lookups>>
    /\ UNCHANGED <<evaluated, hand, epoch, war, rps>>

\* cfr reaches a terminal state: the base case returns the payoff
CfrBase ==
    /\ prog = "kuhn" /\ pc = "cfr" /\ stack # <<>> /\ Top.stage = "call"
    /\ LET g == get_node(tree, heap, info_set_of(cards, Top.h))
       IN  /\ is_terminal(g.heap[g.node])
           /\ tree' = g.tree
           /\ heap' = g.heap
           /\ ret' = get_utility(g.heap[g.node], cards)
           /\ stack' = Pop(stack)
    /\ UNCHANGED <<pc, cards, T, i, util, trained>>
    /\ UNCHANGED dealt
    /\ KuhnFrame

\* cfr at a decision node: get_strategy, then the call for the first action
CfrDescend ==
    /\ prog = "kuhn" /\ pc = "cfr" /\ stack # <<>> /\ Top.stage = "call"
    /\ LET g == get_node(tree, heap, info_set_of(cards, Top.h))
           reach_p == reach_p_of(Top)
           node == get_strategy(g.heap[g.node], reach_p)
           f == [Top EXCEPT !.stage = "loop",
                            !.player_idx = player_idx_of(Top.h),
                            !.info_set = info_set_of(cards, Top.h),
                            !.node = g.node,
                            !.reach_p = reach_p,
                            !.strategy = node.strategy,
                            !.util = [a \in 1..NUM_ACTIONS |-> Zero],
                            !.node_util = Zero,
                            !.a = 0]
       IN  /\ ~is_terminal(g.heap[g.node])
           /\ tree' = g.tree
           /\ heap' = [g.heap EXCEPT ![g.node] = node]
           /\ stack' = Append(SetTop(stack, f), ChildCall(f, 0))
    /\ UNCHANGED <<pc, ret, cards, T, i, util, trained>>
    /\ UNCHANGED dealt
    /\ KuhnFrame

\* a recursive call returned and another action is left
CfrNext ==
    /\ prog = "kuhn" /\ pc = "cfr" /\ stack # <<>> /\ Top.stage = "loop"
    /\ Top.a + 1 < NUM_ACTIONS
    /\ LET f == [Folded(Top, ret) EXCEPT !.a = Top.a + 1]
       IN  stack' = Append(SetTop(stack, f), ChildCall(f, f.a))
    /\ UNCHANGED <<pc, tree, heap, ret, cards, T, i, util, trained>>
    /\ UNCHANGED dealt
    /\ KuhnFrame

\* the last recursive call returned: the regrets are updated and cfr returns
CfrFinish ==
    /\ prog = "kuhn" /\ pc = "cfr" /\ stack # <<>> /\ Top.stage = "loop"
    /\ Top.a + 1 = NUM_ACTIONS
    /\ LET f == Folded(Top, ret)
       IN  /\ heap' = [heap EXCEPT ![f.node] = UpdateRegrets(heap[f.node], f, NUM_ACTIONS)]
           /\ ret' = f.node_util
           /\ stack' = Pop(stack)
    /\ UNCHANGED <<pc, tree, cards, T, i, util, trained>>
    /\ UNCHANGED dealt
    /\ KuhnFrame

\* the deals: the arrangements of the cards {1, 2, 3}; the first two are the
\* cards of player 1 and player 2
Deals ==
    {d \in {<<a, b, c>> : a \in 1..3, b \in 1..3, c \in 1..3} :
        d[1] # d[2] /\ d[1] # d[3] /\ d[2] # d[3]}

\* no deal has been used yet
NoDeals == [d \in Deals |-> 0]

\* the loop of train with its bound left at T
TrainIterations_T(t) == t

\* the number of iterations of the loop of train(t)
TrainIterations(t) == t + 6

\* Solver::train(t) is called; a Solver is trained once (Game::setup)
Train(t) ==
    /\ prog = "kuhn" /\ pc = "idle" /\ ~trained
    /\ trained' = TRUE
    /\ T' = t
    /\ cards' = <<1, 2, 3>>
    /\ util' = Zero
    /\ i' = 0
    /\ dealt' = NoDeals
    /\ pc' = "train"
    /\ UNCHANGED <<tree, heap, stack, ret>>
    /\ KuhnFrame

\* the loop of train calls cfr(cards, "", 1, 1); dealt records the deal
TrainIter ==
    /\ prog = "kuhn" /\ pc = "train" /\ i < TrainIterations(T)
    /\ stack' = <<Call(<<>>, One, One)>>
    /\ dealt' = [dealt EXCEPT ![cards] = @ + 1]
    /\ pc' = "cfr"
    /\ UNCHANGED <<tree, heap, ret, cards, T, i, util, trained>>
    /\ KuhnFrame

\* cfr returned to train: util += ..., next_permutation, ++i
TrainFold ==
    /\ prog = "kuhn" /\ pc = "cfr" /\ stack = <<>>
    /\ util' = RAdd(util, ret)
    /\ cards' = next_permutation(cards)
    /\ i' = i + 1
    /\ pc' = "train"
    /\ UNCHANGED <<tree, heap, stack, ret, T, trained>>
    /\ UNCHANGED dealt
    /\ KuhnFrame

\* train returns
TrainDone ==
    /\ prog = "kuhn" /\ pc = "train" /\ ~(i < TrainIterations(T))
    /\ pc' = "idle"
    /\ UNCHANGED <<tree, heap, stack, ret, cards, T, i, util, trained>>
    /\ UNCHANGED dealt
    /\ KuhnFrame

\* Solver::compute_terminal_payoffs on the store st = [tree, heap]: the store
\* after the call and the value returned
RECURSIVE compute_terminal_payoffs(_, _, _)
RECURSIVE PayoffLoop(_, _, _, _, _)
compute_terminal_payoffs(st, cs, h) ==
    LET g == get_node(st.tree, st.heap, info_set_of(cs, h))
        node == g.heap[g.node]
        s1 == [tree |-> g.tree, heap |-> g.heap]
    IN  IF is_terminal(node)
        THEN [tree |-> s1.tree, heap |-> s1.heap, val |-> get_utility(node, cs)]
        ELSE PayoffLoop(s1, cs, h, get_average_strategy(node), NUM_ACTIONS)

\* the first n iterations of the loop over the actions, node_util in val
PayoffLoop(st, cs, h, strategy, n) ==
    IF n = 0 THEN [tree |-> st.tree, heap |-> st.heap, val |-> Zero]
    ELSE LET before == PayoffLoop(st, cs, h, strategy, n - 1)
             child == compute_terminal_payoffs(
                          [tree |-> before.tree, heap |-> before.heap],
                          cs, Append(h, ACTIONS_[n]))
         IN  [tree |-> child.tree, heap |-> child.heap,
              val |-> RAdd(before.val, RMul(RNeg(child.val), strategy[n]))]

KuhnTrainFrame ==
    /\ UNCHANGED <<prog, dice, stack, ret, cards, T, i, util, trained>>
    /\ UNCHANGED <<dealt, epoch, war, rps>>

\* Solver::compute_expected_value is called
ExpectedValueStart ==
    /\ prog = "kuhn" /\ pc = "idle"
    /\ EV' = Zero
    /\ ev_cards' = <<1, 2, 3>>
    /\ ev_i' = 0
    /\ evaluated' = NoDeals
    /\ pc' = "ev"
    /\ UNCHANGED <<tree, heap, solution, looked, lookup, lookups, hand>>
    /\ KuhnTrainFrame

\* one iteration of its loop over the card combos
ExpectedValueStep ==
    /\ prog = "kuhn" /\ pc = "ev" /\ ev_i < 6
    /\ LET r == compute_terminal_payoffs([tree |-> tree, heap |-> heap], ev_cards, <<>>)
       IN  /\ tree' = r.tree
           /\ heap' = r.heap
           /\ EV' = RAdd(EV, RDiv(r.val, FromInt(6)))
    /\ ev_cards' = next_permutation(ev_cards)
    /\ ev_i' = ev_i + 1
    /\ evaluated' = [evaluated EXCEPT ![ev_cards] = @ + 1]
    /\ UNCHANGED <<pc, solution, looked, lookup, lookups, hand>>
    /\ KuhnTrainFrame

\* compute_expected_value returns EV
ExpectedValueDone ==
    /\ prog = "kuhn" /\ pc = "ev" /\ ~(ev_i < 6)
    /\ pc' = "idle"
    /\ UNCHANGED <<tree, heap, EV, ev_i, ev_cards, solution, looked, lookup, lookups>>
    /\ UNCHANGED <<evaluated, hand>>
    /\ KuhnTrainFrame

\* Solver::get_solution, Game::setup keeps the copy of the map
GetSolution ==
    /\ prog = "kuhn" /\ pc = "idle" /\ solution # tree
    /\ solution' = tree
    /\ UNCHANGED <<pc, tree, heap, EV, ev_i, ev_cards, looked, lookup, lookups>>
    /\ UNCHANGED <<evaluated, hand>>
    /\ KuhnTrainFrame

\* the information sets a strategy is asked for
LookupKeys == {<<"1">>, <<"2", "c">>}

\* the average strategy of info_set, asked of the Solver: get_node, then
\* Node::get_average_strategy
SolverLookup(info_set) ==
    /\ prog = "kuhn" /\ pc = "idle" /\ lookups < MaxLookups
    /\ lookups' = lookups + 1
    /\ LET g == get_node(tree, heap, info_set)
       IN  /\ tree' = g.tree
           /\ heap' = g.heap
           /\ lookup' = [path |-> "get_node", outcome |-> "strategy",
                         strategy |-> get_average_strategy(g.heap[g.node])]
    /\ looked' = [key |-> info_set, known |-> info_set \in DOMAIN tree]
    /\ UNCHANGED <<pc, EV, ev_i, ev_cards, solution>>
    /\ UNCHANGED <<evaluated, hand>>
    /\ KuhnTrainFrame

\* std::unordered_map::operator[]: a missing key is inserted with nullptr
MapIndex(m, key) ==
    IF key \in DOMAIN m THEN m
    ELSE [k \in DOMAIN m \cup {key} |-> IF k = key THEN 0 ELSE m[k]]

\* what a call of get_average_strategy through nullptr can do
NullCallOutcomes == {"crash", "garbage"}

\* Game::get_bot_action for the information set info_set = bot_card_string + h:
\* the lookup in the copy of the map and Node::get_average_strategy
GetBotAction(info_set) ==
    /\ prog = "kuhn" /\ pc = "idle" /\ lookups < MaxLookups
    /\ lookups' = lookups + 1
    /\ solution' = MapIndex(solution, info_set)
    /\ LET node == solution'[info_set]
       IN  IF node # 0
           THEN lookup' = [path |-> "solution", outcome |-> "strategy",
                           strategy |-> get_average_strategy(heap[node])]
           ELSE \E o \in NullCallOutcomes :
                    lookup' = [path |-> "solution", outcome |-> o, strategy |-> <<>>]
    /\ looked' = [key |-> info_set, known |-> info_set \in DOMAIN solution]
    /\ UNCHANGED <<pc, tree, heap, EV, ev_i, ev_cards>>
    /\ UNCHANGED <<evaluated, hand>>
    /\ KuhnTrainFrame

\* no hand is being played
NoHand == [h |-> <<>>, cards |-> <<>>, p1 |-> "none", res |-> 0, player |-> 0, bot |-> 0]

\* Game::handle_terminal_state with the Game's cards cs and its p1: the res
\* it shows, and what it adds to player_stack and to bot_stack
handle_terminal_state(h, node, cs, p1) ==
    LET res == get_utility(node, cs)[1]
        wrt_p1 == IF Len(h) = 3 THEN -res ELSE res
        wrt_player == IF p1 = "Bot" THEN -wrt_p1 ELSE wrt_p1
    IN  [res |-> wrt_player, player |-> wrt_player, bot |-> -wrt_player]

\* the actions Game::get_bot_action can return at node
get_bot_action(node) ==
    LET strategy == get_average_strategy(node)
    IN  {IF RLe(r, strategy[1]) THEN "c" ELSE "b" : r \in RandomUnit}

\* whose turn move k of a hand is (from 1), p1 moves first
turn(p1, k) == IF k % 2 = 1 THEN p1 ELSE (IF p1 = "Player" THEN "Bot" ELSE "Player")

\* Game::play_hand after Game::setup, with the shuffled cards cs and p1 = p:
\* the moves of the hand make the terminal history h, the moves of the bot
\* being those get_bot_action can return, and handle_terminal_state runs
PlayHand(cs, h, p) ==
    /\ prog = "kuhn" /\ pc = "idle" /\ trained /\ solution = tree
    /\ LET oop == (p = "Player")
           bot_card_string == to_string(cs[IF oop THEN 2 ELSE 1])
           node == solution[<<"1">> \o h]
       IN  /\ \A k \in 1..Len(h) :
                 turn(p, k) = "Bot" =>
                    h[k] \in get_bot_action(
                                heap[solution[bot_card_string \o SubSeq(h, 1, k - 1)]])
           /\ is_terminal(heap[node])
           /\ hand' = [h |-> h, cards |-> cs, p1 |-> p] @@
                          handle_terminal_state(h, heap[node], cs, p)
    /\ pc' = "hand"
    /\ UNCHANGED <<tree, heap, EV, ev_i, ev_cards, solution, looked, lookup, lookups>>
    /\ UNCHANGED evaluated
    /\ KuhnTrainFrame

\* play_hand returns to the game loop of Game::play
PlayHandReturn ==
    /\ prog = "kuhn" /\ pc = "hand"
    /\ hand' = NoHand
    /\ pc' = "idle"
    /\ UNCHANGED <<tree, heap, EV, ev_i, ev_cards, solution, looked, lookup, lookups>>
    /\ UNCHANGED evaluated
    /\ KuhnTrainFrame

(***************************************************************************)
(* src/dudo.cc: the game and class Node                                    *)
(***************************************************************************)
NUM_SIDES == 6
Dudo_NUM_ACTIONS == 2 * NUM_SIDES + 1
\* index of the action Dudo, from 0
DUDO == Dudo_NUM_ACTIONS - 1
NUM_CLAIMS == <<"1", "1", "1", "1", "1", "1", "2", "2", "2", "2", "2", "2">>
CLAIM_RANKS == <<"2", "3", "4", "5", "6", "1", "2", "3", "4", "5", "6", "1">>

\* Node::Node of dudo.cc
Dudo_Node(info_set) ==
    LET n_actions == IF Len(info_set) >= 4 THEN Dudo_NUM_ACTIONS
                     ELSE Dudo_NUM_ACTIONS - 1
    IN  [n_actions |-> n_actions,
         info_set |-> info_set,
         regret_sum |-> [a \in 1..n_actions |-> Zero],
         strategy |-> [a \in 1..n_actions |-> Rat(1, n_actions)],
         strategy_sum |-> [a \in 1..n_actions |-> Zero]]

\* info_set.back() == 'D'
Dudo_is_terminal(node) == node.info_set[Len(node.info_set)] = "D"

\* Node::get_utility of dudo.cc; n and r are chars converted to int
Dudo_get_utility(node, ds) ==
    LET h == Len(node.info_set)
        n == Ord(node.info_set[(h - 4) + 1])
        r == Ord(node.info_set[(h - 2) + 1])
        rank_count == (IF ds[1] = r \/ ds[1] = 1 THEN 1 ELSE 0)
                      + (IF ds[2] = r \/ ds[2] = 1 THEN 1 ELSE 0)
        diff == rank_count - n
    IN  IF diff > 0 THEN diff
        ELSE IF diff < 0 THEN -diff
        ELSE 1

\* Node::get_strategy of dudo.cc
Dudo_get_strategy(node, p) ==
    LET pos == [a \in 1..node.n_actions |-> RMax(node.regret_sum[a], Zero)]
        norm == RSum(pos)
        strat == [a \in 1..node.n_actions |->
                     IF RLt(Zero, norm) THEN RDiv(pos[a], norm)
                     ELSE Rat(1, node.n_actions)]
    IN  [node EXCEPT
           !.strategy = strat,
           !.strategy_sum = [a \in 1..node.n_actions |->
                                RAdd(node.strategy_sum[a], RMul(p, strat[a]))]]

\* Node::update_regret of dudo.cc (a is the index of the source, from 0)
Dudo_update_regret(node, a, v) ==
    [node EXCEPT !.regret_sum[a + 1] = RAdd(node.regret_sum[a + 1], v)]

\* Node::get_average_strategy of dudo.cc: the vector returned has NUM_ACTIONS
\* entries, the first n_actions of them are assigned
Dudo_get_average_strategy(node) ==
    LET norm == RSum(node.strategy_sum)
    IN  [a \in 1..Dudo_NUM_ACTIONS |->
            IF a <= node.n_actions
            THEN (IF RLt(Zero, norm) THEN RDiv(node.strategy_sum[a], norm)
                  ELSE Rat(1, node.n_actions))
            ELSE Zero]

(***************************************************************************)
(* src/dudo.cc: class Solver                                               *)
(***************************************************************************)
\* Solver::get_node of dudo.cc
Dudo_get_node(tr, hp, info_set) ==
    IF info_set \in DOMAIN tr
    THEN [tree |-> tr, heap |-> hp, node |-> tr[info_set]]
    ELSE [tree |-> [k \in DOMAIN tr \cup {info_set} |->
                       IF k = info_set THEN Len(hp) + 1 ELSE tr[k]],
          heap |-> Append(hp, Dudo_Node(info_set)),
          node |-> Len(hp) + 1]

\* the string of action a (from 0)
Dudo_action(a) == IF a = DUDO THEN <<"D">> ELSE <<NUM_CLAIMS[a + 1], CLAIM_RANKS[a + 1]>>

\* the recursive call of the loop body for action a of frame f
Dudo_ChildCall(f, a) ==
    IF f.player_idx = 0
    THEN Call(f.h \o Dudo_action(a), RMul(f.p1, f.strategy[a + 1]), f.p2)
    ELSE Call(f.h \o Dudo_action(a), f.p1, RMul(f.p2, f.strategy[a + 1]))

\* a call of cfr from the frames st: it needs a frame the call stack may not
\* have left, since nothing bounds the depth of the recursion
Dudo_Push(st, f) ==
    IF Len(st) < StackLimit
    THEN /\ stack' = Append(st, f)
         /\ pc' = "cfr"
    ELSE /\ stack' = st
         /\ pc' = "overflow"

\* the dice as train fills them, before the shuffle
SortedDice == [k \in 1..(2 * NUM_SIDES) |-> (k + 1) \div 2]

RECURSIVE RemoveOne(_, _)
RemoveOne(s, x) ==
    IF s = <<>> THEN <<>>
    ELSE IF Head(s) = x THEN Tail(s)
    ELSE <<Head(s)>> \o RemoveOne(Tail(s), x)

\* results of the shuffle: every pair of first two dice, the rest in order
Shuffles ==
    {<<a, b>> \o RemoveOne(RemoveOne(SortedDice, a), b) :
        a \in 1..NUM_SIDES, b \in 1..NUM_SIDES}

DudoFrame ==
    /\ UNCHANGED <<prog, cards, EV, ev_i, ev_cards, solution>>
    /\ UNCHANGED <<dealt, evaluated, hand, epoch, war, rps>>

\* Solver::train(t) of dudo.cc is called, once (main), and shuffles the dice
\* to d
Dudo_Train(t, d) ==
    /\ prog = "dudo" /\ pc = "idle" /\ ~trained
    /\ trained' = TRUE
    /\ T' = t
    /\ dice' = d
    /\ util' = Zero
    /\ i' = 0
    /\ pc' = "train"
    /\ UNCHANGED <<tree, heap, stack, ret, looked, lookup, lookups>>
    /\ DudoFrame

\* the loop of train: the call cfr(dice, "", 1, 1), what follows its return,
\* and the end of the loop
Dudo_TrainLoop ==
    /\ prog = "dudo"
    /\ \/ pc = "train"
       \/ pc = "cfr" /\ stack = <<>>
    /\ IF pc = "cfr"
       THEN /\ util' = RAdd(util, ret)
            /\ dice' = next_permutation(dice)
            /\ i' = i + 1
            /\ pc' = "train"
            /\ UNCHANGED stack
       ELSE IF i < T
       THEN /\ Dudo_Push(stack, Call(<<>>, One, One))
            /\ UNCHANGED <<util, dice, i>>
       ELSE /\ pc' = "idle"
            /\ UNCHANGED <<util, dice, i, stack>>
    /\ UNCHANGED <<tree, heap, ret, T, trained, looked, lookup, lookups>>
    /\ DudoFrame

\* one step of Solver::cfr of dudo.cc in its topmost frame: from the entry to
\* the base case or the first recursive call, or from the return of a
\* recursive call to the next one or to the regret updates and the return
RECURSIVE Dudo_UpdateRegrets(_, _, _)
Dudo_UpdateRegrets(node, f, n) ==
    IF n = 0 THEN node
    ELSE Dudo_update_regret(Dudo_UpdateRegrets(node, f, n - 1), n - 1,
                       RMul(f.reach_p, RSub(f.util[n], f.node_util)))

Dudo_Cfr ==
    /\ prog = "dudo" /\ pc = "cfr" /\ stack # <<>>
    /\ IF Top.stage = "call"
       THEN LET player_idx == Len(Top.h) % 2
                info_set == to_string(dice[player_idx + 1]) \o Top.h
                g == Dudo_get_node(tree, heap, info_set)
                reach_p == IF player_idx = 0 THEN Top.p2 ELSE Top.p1
                node == Dudo_get_strategy(g.heap[g.node], reach_p)
                f == [Top EXCEPT !.stage = "loop",
                                 !.player_idx = player_idx,
                                 !.info_set = info_set,
                                 !.node = g.node,
                                 !.reach_p = reach_p,
                                 !.strategy = node.strategy,
                                 !.util = [a \in 1..node.n_actions |-> Zero],
                                 !.node_util = Zero,
                                 !.a = 0]
            IN  /\ tree' = g.tree
                /\ IF Dudo_is_terminal(g.heap[g.node])
                   THEN /\ heap' = g.heap
                        /\ ret' = FromInt(Dudo_get_utility(g.heap[g.node], dice))
                        /\ stack' = Pop(stack)
                        /\ pc' = pc
                   ELSE /\ heap' = [g.heap EXCEPT ![g.node] = node]
                        /\ ret' = ret
                        /\ Dudo_Push(SetTop(stack, f), Dudo_ChildCall(f, 0))
       ELSE LET f == Folded(Top, ret)
            IN  /\ tree' = tree
                /\ IF Top.a + 1 < heap[Top.node].n_actions
                   THEN /\ heap' = heap
                        /\ ret' = ret
                        /\ Dudo_Push(SetTop(stack, [f EXCEPT !.a = Top.a + 1]),
                                     Dudo_ChildCall(f, Top.a + 1))
                   ELSE /\ heap' = [heap EXCEPT ![f.node] =
                                       Dudo_UpdateRegrets(heap[f.node], f, heap[f.node].n_actions)]
                        /\ ret' = f.node_util
                        /\ stack' = Pop(stack)
                        /\ pc' = pc
    /\ UNCHANGED <<dice, T, i, util, trained, looked, lookup, lookups>>
    /\ DudoFrame

\* Node::get_average_strategy of dudo.cc on the node of info_set
Dudo_AverageStrategy(info_set) ==
    /\ prog = "dudo" /\ lookups < MaxLookups
    /\ info_set \in DOMAIN tree
    /\ lookups' = lookups + 1
    /\ lookup' = [path |-> "node", outcome |-> "strategy",
                  strategy |-> Dudo_get_average_strategy(heap[tree[info_set]])]
    /\ looked' = [key |-> info_set, known |-> TRUE]
    /\ UNCHANGED <<pc, tree, heap, stack, ret, dice, T, i, util, trained>>
    /\ DudoFrame

(***************************************************************************)
(* src/war.cc: Colonel Blotto by regret matching                           *)
(***************************************************************************)
\* N of war.cc, the number of battlefields
War_N == 3
\* S of war.cc, the number of soldiers
War_S == 5

\* dfs(t, b, s) (b is the parameter i of the source): the actions it pushes,
\* in the order it pushes them
RECURSIVE dfs(_, _, _)
RECURSIVE dfs_from(_, _, _, _)
dfs(t, b, s) ==
    IF b = War_N - 1 THEN <<t \o to_string(s)>>
    ELSE dfs_from(t, b, s, 0)

\* the iterations j, j + 1, ..., s of the loop of dfs
dfs_from(t, b, s, j) ==
    IF j > s THEN <<>>
    ELSE dfs(t \o to_string(j), b + 1, s - j) \o dfs_from(t, b, s, j + 1)

\* actions after init_actions
War_actions == dfs(<<>>, 0, War_S)

\* NUM_ACTIONS of war.cc after init_actions
War_NUM_ACTIONS == Len(War_actions)

\* the loop over the battlefields of init_actions for the actions a and b
\* (from 0): u after its first n iterations
RECURSIVE payoff_to(_, _, _)
payoff_to(a, b, n) ==
    IF n = 0 THEN 0
    ELSE LET s == Ord(War_actions[a + 1][n]) - Ord("0")
             t == Ord(War_actions[b + 1][n]) - Ord("0")
         IN  payoff_to(a, b, n - 1)
                + (IF s > t THEN 1 ELSE 0) - (IF s < t THEN 1 ELSE 0)

\* the table utility after init_actions, utility[a][b] is War_utility[a][b]
\* (a and b from 0)
War_utility ==
    [a \in 0..(War_NUM_ACTIONS - 1) |->
        [b \in 0..(War_NUM_ACTIONS - 1) |-> payoff_to(a, b, War_N)]]

\* std::vector::resize(n, 0): the elements there are stay, zeros are added
resize(v, n) == [k \in 1..n |-> IF k <= Len(v) THEN v[k] ELSE Zero]

\* the loop of get_action over the strategy s of n actions, from action a
\* with the cumulative probability p, for the random number r
RECURSIVE get_action_from(_, _, _, _, _)
get_action_from(s, n, r, a, p) ==
    IF a < n - 1
    THEN CHOOSE x \in {IF RLt(r, q) THEN a ELSE get_action_from(s, n, r, a + 1, q) :
                          q \in {RAdd(p, s[a + 1])}} : TRUE
    ELSE a

\* get_action of war.cc for r = rand() / RAND_MAX
War_get_action(s, r) == get_action_from(s, War_NUM_ACTIONS, r, 0, Zero)

\* update_strategy of war.cc: s and sum after the call
War_update_strategy(s, sum, r) ==
    LET pos == [a \in 1..War_NUM_ACTIONS |-> IF RLt(Zero, r[a]) THEN r[a] ELSE Zero]
        norm == RSum(pos)
        strat == [a \in 1..War_NUM_ACTIONS |->
                     IF RLt(Zero, norm) THEN RDiv(pos[a], norm)
                     ELSE Rat(1, War_NUM_ACTIONS)]
    IN  [s |-> strat,
         sum |-> [a \in 1..War_NUM_ACTIONS |-> RAdd(sum[a], strat[a])]]

\* get_average_strategy of war.cc
War_get_average_strategy(sum) ==
    LET norm == RSum(sum)
    IN  [a \in 1..War_NUM_ACTIONS |->
            IF RLt(Zero, norm) THEN RDiv(sum[a], norm)
            ELSE Rat(1, War_NUM_ACTIONS)]

\* the globals of war.cc before main runs, and a0, a1 of train (-1: not set)
War_Globals ==
    [s0 |-> <<>>, s1 |-> <<>>, sum0 |-> <<>>, sum1 |-> <<>>,
     r0 |-> <<>>, r1 |-> <<>>, a0 |-> -1, a1 |-> -1, printed |-> <<>>]

\* the number of epochs of main
EPOCHS == 10

WarFrame ==
    /\ UNCHANGED <<prog, tree, heap, stack, ret, cards, dice, util, EV, ev_i,
                   ev_cards, solution, looked, lookup, trained, lookups>>
    /\ UNCHANGED <<dealt, evaluated, hand, rps>>

\* main of war.cc up to its loop: init_actions; every epoch trains n times
War_Main(n) ==
    /\ prog = "war" /\ pc = "idle"
    /\ T' = n
    /\ epoch' = 0
    /\ pc' = "epoch"
    /\ UNCHANGED <<i, war>>
    /\ WarFrame

\* main calls train(n)
War_TrainCall ==
    /\ prog = "war" /\ pc = "epoch"
    /\ i' = 0
    /\ pc' = "train"
    /\ UNCHANGED <<T, epoch, war>>
    /\ WarFrame

\* one iteration of the loop of train, rand() giving u0 and then u1
War_TrainIter(u0, u1) ==
    /\ prog = "war" /\ pc = "train" /\ i < T
    /\ epoch * T + i < MaxIters
    /\ LET n == War_NUM_ACTIONS
           s0 == resize(war.s0, n)
           s1 == resize(war.s1, n)
           sum0 == resize(war.sum0, n)
           sum1 == resize(war.sum1, n)
           r0 == resize(war.r0, n)
           r1 == resize(war.r1, n)
       IN  \E a0 \in {War_get_action(s0, u0)} : \E a1 \in {War_get_action(s1, u1)} :
              LET q0 == [a \in 1..n |->
                            RAdd(r0[a], FromInt(War_utility[a - 1][a1] - War_utility[a0][a1]))]
                  q1 == [a \in 1..n |->
                            RAdd(r1[a], FromInt(War_utility[a - 1][a0] - War_utility[a1][a0]))]
                  p0 == War_update_strategy(s0, sum0, q0)
                  p1 == War_update_strategy(s1, sum1, q1)
              IN  war' = [war EXCEPT !.s0 = p0.s, !.sum0 = p0.sum, !.r0 = q0,
                                     !.s1 = p1.s, !.sum1 = p1.sum, !.r1 = q1,
                                     !.a0 = a0, !.a1 = a1]
    /\ i' = i + 1
    /\ UNCHANGED <<pc, T, epoch>>
    /\ WarFrame

\* train returns: print_solution, then the next epoch or the end of main
War_TrainReturn ==
    /\ prog = "war" /\ pc = "train" /\ ~(i < T)
    /\ war' = [war EXCEPT !.printed = <<War_get_average_strategy(war.sum0),
                                        War_get_average_strategy(war.sum1)>>]
    /\ epoch' = epoch + 1
    /\ pc' = IF epoch + 1 < EPOCHS THEN "epoch" ELSE "done"
    /\ UNCHANGED <<T, i>>
    /\ WarFrame

(***************************************************************************)
(* src/rps.cc: rock-paper-scissors by regret matching                      *)
(***************************************************************************)
\* NUM_ACTIONS of rps.cc
Rps_NUM_ACTIONS == 3

\* a double[2][NUM_ACTIONS] of zeros
ZeroArray == [p \in 1..2 |-> [a \in 1..Rps_NUM_ACTIONS |-> Zero]]

\* the globals of rps.cc before main runs (zero-initialised), and j, k of
\* train (-1: not set)
Rps_Globals ==
    [regret_sum |-> ZeroArray, strategy |-> ZeroArray,
     strategy_sum |-> ZeroArray, avg_strategy |-> ZeroArray,
     j |-> -1, k |-> -1]

\* set_strategy(p) on the globals g (p from 0)
set_strategy(g, p) ==
    LET pos == [a \in 1..Rps_NUM_ACTIONS |->
                   IF RLt(Zero, g.regret_sum[p + 1][a])
                   THEN g.regret_sum[p + 1][a] ELSE Zero]
        norm == RSum(pos)
        strat == [a \in 1..Rps_NUM_ACTIONS |->
                     IF RLt(Zero, norm) THEN RDiv(pos[a], norm)
                     ELSE Rat(1, Rps_NUM_ACTIONS)]
    IN  [g EXCEPT !.strategy[p + 1] = strat,
                  !.strategy_sum[p + 1] =
                      [a \in 1..Rps_NUM_ACTIONS |-> RAdd(@[a], strat[a])]]

\* set_average_strategy(p) on the globals g
set_average_strategy(g, p) ==
    LET norm == RSum(g.strategy_sum[p + 1])
    IN  [g EXCEPT !.avg_strategy[p + 1] =
            [a \in 1..Rps_NUM_ACTIONS |->
                IF RLt(Zero, norm) THEN RDiv(g.strategy_sum[p + 1][a], norm)
                ELSE Rat(1, Rps_NUM_ACTIONS)]]

\* get_action(p) of rps.cc for r = rand() / RAND_MAX
Rps_get_action(g, p, r) ==
    get_action_from(g.strategy[p + 1], Rps_NUM_ACTIONS, r, 0, Zero)

\* the local utility of train after its six assignments: row 0 is player 1's
\* utility against k, row 1 player 2's against j
Rps_utility(j, k) ==
    LET row(o) == [a \in 1..Rps_NUM_ACTIONS |->
                      IF a - 1 = o THEN 0
                      ELSE IF a - 1 = (IF o = Rps_NUM_ACTIONS - 1 THEN 0 ELSE o + 1) THEN 1
                      ELSE -1]
    IN  <<row(k), row(j)>>

\* utility[a] - utility[b] as train writes it: utility[x] is row x of the
\* array, a double*, so this is the distance of two rows in doubles; p is the
\* player whose regret_sum receives it
regret_increment(p, a, j, k) ==
    LET b == IF p = 0 THEN k ELSE j
    IN  Rps_NUM_ACTIONS * (a - b)

\* the value of n in main of rps.cc, the number of epochs
Rps_n == 10

RpsFrame ==
    /\ UNCHANGED <<prog, tree, heap, stack, ret, cards, dice, util, EV, ev_i,
                   ev_cards, solution, looked, lookup, trained, lookups>>
    /\ UNCHANGED <<dealt, evaluated, hand, war>>

\* main of rps.cc up to its loop; every epoch trains n times
Rps_Main(n) ==
    /\ prog = "rps" /\ pc = "idle"
    /\ T' = n
    /\ epoch' = 0
    /\ pc' = "epoch"
    /\ UNCHANGED <<i, rps>>
    /\ RpsFrame

\* the loop "zero out all arrays" of main, for (int p = 0; p < 1; ++p), and
\* the call of train
Rps_ZeroArrays ==
    /\ prog = "rps" /\ pc = "epoch"
    /\ LET zero == [a \in 1..Rps_NUM_ACTIONS |-> Zero]
       IN  rps' = [rps EXCEPT !.regret_sum[1] = zero, !.strategy[1] = zero,
                              !.strategy_sum[1] = zero, !.avg_strategy[1] = zero]
    /\ i' = 0
    /\ pc' = "train"
    /\ UNCHANGED <<T, epoch>>
    /\ RpsFrame

\* one iteration of the loop of train, rand() giving u0 and then u1
Rps_TrainIter(u0, u1) ==
    /\ prog = "rps" /\ pc = "train" /\ i < T
    /\ epoch * T + i < MaxIters
    /\ LET j == Rps_get_action(rps, 0, u0)
           k == Rps_get_action(rps, 1, u1)
           g == [rps EXCEPT
                   !.regret_sum[1] = [a \in 1..Rps_NUM_ACTIONS |->
                       RAdd(@[a], FromInt(regret_increment(0, a - 1, j, k)))],
                   !.regret_sum[2] = [a \in 1..Rps_NUM_ACTIONS |->
                       RAdd(@[a], FromInt(regret_increment(1, a - 1, j, k)))],
                   !.j = j, !.k = k]
       IN  rps' = set_strategy(set_strategy(g, 0), 1)
    /\ i' = i + 1
    /\ UNCHANGED <<pc, T, epoch>>
    /\ RpsFrame

\* train returns: set_average_strategy for both players, the output, and
\* the next epoch or the end of main
Rps_TrainReturn ==
    /\ prog = "rps" /\ pc = "train" /\ ~(i < T)
    /\ rps' = set_average_strategy(set_average_strategy(rps, 0), 1)
    /\ epoch' = epoch + 1
    /\ pc' = IF epoch + 1 < Rps_n THEN "epoch" ELSE "done"
    /\ UNCHANGED <<T, i>>
    /\ RpsFrame

(***************************************************************************)
(* The runs                                                                *)
(***************************************************************************)
Programs == {"kuhn", "dudo", "war", "rps"}

Init ==
    /\ prog \in Programs
    /\ pc = "idle"
    /\ tree = <<>>
    /\ heap = <<>>
    /\ stack = <<>>
    /\ ret = Zero
    /\ cards = <<1, 2, 3>>
    /\ dice = SortedDice
    /\ T = 0
    /\ i = 0
    /\ util = Zero
    /\ EV = Zero
    /\ ev_i = 0
    /\ ev_cards = <<1, 2, 3>>
    /\ solution = <<>>
    /\ looked = [key |-> <<>>, known |-> TRUE]
    /\ lookup = [path |-> "none", outcome |-> "none", strategy |-> <<>>]
    /\ trained = FALSE
    /\ lookups = 0
    /\ dealt = NoDeals
    /\ evaluated = NoDeals
    /\ hand = NoHand
    /\ epoch = 0
    /\ war = War_Globals
    /\ rps = Rps_Globals

KuhnNext ==
    \/ \E t \in 0..MaxT : Train(t)
    \/ TrainIter
    \/ CfrBase
    \/ CfrDescend
    \/ CfrNext
    \/ CfrFinish
    \/ TrainFold
    \/ TrainDone
    \/ ExpectedValueStart
    \/ ExpectedValueStep
    \/ ExpectedValueDone
    \/ GetSolution
    \/ \E k \in LookupKeys : SolverLookup(k)
    \/ \E k \in LookupKeys : GetBotAction(k)
    \/ \E cs \in Deals : \E h \in TERMINAL_HISTORIES : \E p \in {"Player", "Bot"} :
          PlayHand(cs, h, p)
    \/ PlayHandReturn

DudoNext ==
    \/ \E t \in 0..MaxT : \E d \in Shuffles : Dudo_Train(t, d)
    \/ Dudo_TrainLoop
    \/ Dudo_Cfr
    \/ \E k \in DOMAIN tree : Dudo_AverageStrategy(k)

WarNext ==
    \/ \E n \in 1..MaxT : War_Main(n)
    \/ War_TrainCall
    \/ \E u0, u1 \in RandomUnit : War_TrainIter(u0, u1)
    \/ War_TrainReturn

RpsNext ==
    \/ \E n \in 1..MaxT : Rps_Main(n)
    \/ Rps_ZeroArrays
    \/ \E u0, u1 \in RandomUnit : Rps_TrainIter(u0, u1)
    \/ Rps_TrainReturn

Next == KuhnNext \/ DudoNext \/ WarNext \/ RpsNext

Spec == Init /\ [][Next]_vars

(***************************************************************************)
(* The base case of the Dudo traversal: cfr called with a history that     *)
(* ends in Dudo                                                            *)
(***************************************************************************)
\* the histories of n claims that the loop of cfr builds
RECURSIVE ClaimHistories(_)
ClaimHistories(n) ==
    IF n = 0 THEN {<<>>}
    ELSE {h \o Dudo_action(a) : h \in ClaimHistories(n - 1), a \in 0..(DUDO - 1)}

\* the histories ending in Dudo that the loop of cfr builds: Dudo is an
\* action of the nodes with NUM_ACTIONS actions, those whose key (a die and
\* the history) has 4 characters or more
DudoCalls ==
    UNION {{h \o Dudo_action(DUDO) : h \in {g \in ClaimHistories(n) : 1 + Len(g) >= 4}} :
              n \in 0..MaxClaims}

\* train(1) has shuffled the dice and cfr is called with such a history
UtilityInit ==
    /\ prog = "dudo"
    /\ pc = "cfr"
    /\ tree = <<>>
    /\ heap = <<>>
    /\ stack \in {<<Call(h, One, One)>> : h \in DudoCalls}
    /\ ret = Zero
    /\ cards = <<1, 2, 3>>
    /\ dice \in Shuffles
    /\ T = 1
    /\ i = 0
    /\ util = Zero
    /\ EV = Zero
    /\ ev_i = 0
    /\ ev_cards = <<1, 2, 3>>
    /\ solution = <<>>
    /\ looked = [key |-> <<>>, known |-> TRUE]
    /\ lookup = [path |-> "none", outcome |-> "none", strategy |-> <<>>]
    /\ trained = TRUE
    /\ lookups = 0
    /\ dealt = NoDeals
    /\ evaluated = NoDeals
    /\ hand = NoHand
    /\ epoch = 0
    /\ war = War_Globals
    /\ rps = Rps_Globals

UtilityNext == Dudo_Cfr \/ Dudo_TrainLoop

UtilitySpec == UtilityInit /\ [][UtilityNext]_vars

(***************************************************************************)
(* Properties                                                              *)
(***************************************************************************)
\* the private cards or dice of the two players in the running program
Private == IF prog = "kuhn" THEN cards ELSE dice

\* the number of legal actions at a node
action_count(node) == IF prog = "kuhn" THEN NUM_ACTIONS ELSE node.n_actions

\* frame k of the stack has entered a decision node
Entered(k) == k \in 1..Len(stack) /\ stack[k].stage = "loop"

\* this step is the visit of a decision node by the topmost call: get_node
\* and get_strategy have run when it ends
VisitStep ==
    /\ pc = "cfr" /\ stack # <<>> /\ Top.stage = "call"
    /\ Len(stack') >= Len(stack) /\ stack'[Len(stack)].stage = "loop"

\* this step ends the visit of a decision node: the regrets are updated and
\* the call returns
FinishStep ==
    /\ pc = "cfr" /\ stack # <<>> /\ Top.stage = "loop"
    /\ Len(stack') < Len(stack)

\* this step folds the value returned by a recursive call into util
FoldStep == pc = "cfr" /\ stack # <<>> /\ Top.stage = "loop" /\ stack' # stack

\* the reach probability of the player who does not act in frame f
reach_opp(f) == IF f.player_idx = 0 THEN f.p2 ELSE f.p1

\* C1: the acting player alternates along every chain of recursive calls:
\* player 1 (index 0) acts at the empty history, the player acting at h+a is
\* the opponent of the player acting at h, and the key of a decision node
\* starts with the acting player's own card or die
C1_Alternation ==
    /\ \A k \in 1..Len(stack) :
          Entered(k) =>
             /\ (stack[k].h = <<>> => stack[k].player_idx = 0)
             /\ stack[k].info_set =
                   to_string(Private[stack[k].player_idx + 1]) \o stack[k].h
    /\ \A k \in 1..(Len(stack) - 1) :
          Entered(k + 1) => stack[k + 1].player_idx = 1 - stack[k].player_idx

\* C2: every traversal returns: no chain of recursive calls grows until the
\* call stack is used up, each ends at a terminal history (in Kuhn after at
\* most 3 actions)
C2_TraversalReturns ==
    /\ pc # "overflow"
    /\ prog = "kuhn" => \A k \in 1..Len(stack) : Len(stack[k].h) <= 3

StoreWellFormed ==
    /\ Len(heap) = Cardinality(DOMAIN tree)
    /\ \A k \in DOMAIN tree : tree[k] \in 1..Len(heap) /\ heap[tree[k]].info_set = k

StoreStep ==
    /\ \A k \in DOMAIN tree : k \in DOMAIN tree' /\ tree'[k] = tree[k]
    /\ Len(heap') >= Len(heap)
    /\ \A n \in 1..Len(heap) :
          /\ heap'[n].info_set = heap[n].info_set
          /\ \A a \in 1..Len(heap[n].strategy_sum) :
                RLe(heap[n].strategy_sum[a], heap'[n].strategy_sum[a])
          /\ (~FinishStep => heap'[n].regret_sum = heap[n].regret_sum)
    /\ \A n \in (Len(heap) + 1)..Len(heap') :
          /\ \A a \in 1..Len(heap'[n].regret_sum) : heap'[n].regret_sum[a] = Zero
          /\ \/ \A a \in 1..Len(heap'[n].strategy_sum) : heap'[n].strategy_sum[a] = Zero
             \/ /\ VisitStep
                /\ n = stack'[Len(stack)].node
                /\ \A a \in 1..Len(heap'[n].strategy_sum) :
                      heap'[n].strategy_sum[a] =
                         RMul(reach_opp(stack'[Len(stack)]),
                              Rat(1, Len(heap'[n].strategy_sum)))

\* C3: the store holds one node per key; a key keeps its node for ever
\* (never removed, never replaced), a node is created with regret_sum zero
\* and strategy_sum zero (plus the first visit's mass when the creating call
\* goes on to get_strategy), and what a node accumulated stays
C3_Store == [](StoreWellFormed) /\ [][StoreStep]_vars

\* a key is visited again in a later iteration and its node still holds the
\* regrets of the earlier visit
C3_Witness ==
    /\ prog = "kuhn" /\ i = 1 /\ Entered(Len(stack))
    /\ Top.info_set = <<"1">>
    /\ \E a \in 1..NUM_ACTIONS : heap[tree[<<"1">>]].regret_sum[a] # Zero

PositivePart(x) == IF RLt(Zero, x) THEN x ELSE Zero

RegretMatched(node) ==
    LET n == action_count(node)
        N == RSum([a \in 1..n |-> PositivePart(node.regret_sum[a])])
    IN  \A a \in 1..n :
           IF RLt(Zero, N)
           THEN RMul(node.strategy[a], N) = PositivePart(node.regret_sum[a])
           ELSE node.strategy[a] = Rat(1, n)

IsDistribution(v, n) ==
    /\ Len(v) = n
    /\ \A a \in 1..n : RLe(Zero, v[a])
    /\ RSum(v) = One

StrategiesValid ==
    \A n \in 1..Len(heap) : IsDistribution(heap[n].strategy, action_count(heap[n]))

\* C4: regret matching: after get_strategy, strategy[a] = max(regret_sum[a],0)/N
\* with N the sum of the positive parts when N > 0, and 1/action_count when
\* N = 0; the strategy of every node always has action_count entries, none
\* negative, and sums to 1
C4_RegretMatching ==
    /\ [](StrategiesValid)
    /\ [][VisitStep =>
            LET f == stack'[Len(stack)]
            IN  /\ RegretMatched(heap'[f.node])
                /\ f.strategy = heap'[f.node].strategy]_vars

\* a node whose strategy is not uniform, computed from regrets of both signs
C4_Witness ==
    \E n \in 1..Len(heap) :
       /\ \E a \in 1..Len(heap[n].strategy) : heap[n].strategy[a] = Zero
       /\ \E a \in 1..Len(heap[n].regret_sum) : RLt(heap[n].regret_sum[a], Zero)
       /\ \E a \in 1..Len(heap[n].regret_sum) : RLt(Zero, heap[n].regret_sum[a])

UtilAtFinish(f, r) == [a \in 1..Len(f.util) |-> IF a = f.a + 1 THEN RNeg(r) ELSE f.util[a]]

\* C5: the visit of a decision node adds reach_opp * (util[a] - node_util)
\* to regret_sum[a] for every action a, with util[a] the negated value the
\* recursive call on h+a returned, node_util the sum of strategy[a] * util[a]
\* under the strategy get_strategy returned at this visit, and no clamping
C5_RegretUpdate ==
    [][/\ FoldStep /\ ~FinishStep =>
            stack'[Len(stack)].util[Top.a + 1] = RNeg(ret)
       /\ FinishStep =>
            LET f == Top
                u == UtilAtFinish(f, ret)
                nu == RSum([a \in 1..Len(u) |-> RMul(heap[f.node].strategy[a], u[a])])
            IN  /\ f.strategy = heap[f.node].strategy
                /\ ret' = nu
                /\ \A a \in 1..Len(u) :
                      RSub(heap'[f.node].regret_sum[a], heap[f.node].regret_sum[a])
                         = RMul(reach_opp(f), RSub(u[a], nu))]_vars

\* a visit has ended and left a negative regret
C5_Witness ==
    /\ prog = "kuhn" /\ pc = "cfr" /\ stack = <<>>
    /\ \E n \in 1..Len(heap) : \E a \in 1..NUM_ACTIONS : RLt(heap[n].regret_sum[a], Zero)

SumBefore(n, a) == IF n <= Len(heap) THEN heap[n].strategy_sum[a] ELSE Zero

\* C6: the visit of a decision node adds reach_opp * strategy[a] to
\* strategy_sum[a]; strategy_sum changes in no other step and never
\* decreases, regret_sum changes only when a visit of its node ends
C6_StrategySum ==
    [][/\ VisitStep =>
            LET f == stack'[Len(stack)]
            IN  \A a \in 1..Len(f.strategy) :
                   RSub(heap'[f.node].strategy_sum[a], SumBefore(f.node, a))
                      = RMul(reach_opp(f), heap'[f.node].strategy[a])
       /\ \A n \in 1..Len(heap) :
            /\ \A a \in 1..Len(heap[n].strategy_sum) :
                  RLe(heap[n].strategy_sum[a], heap'[n].strategy_sum[a])
            /\ heap'[n].strategy_sum # heap[n].strategy_sum =>
                  VisitStep /\ n = stack'[Len(stack)].node
            /\ heap'[n].regret_sum # heap[n].regret_sum =>
                  FinishStep /\ n = Top.node]_vars

\* a node has been visited in two iterations and holds the mass of both
C6_Witness ==
    /\ prog = "kuhn"
    /\ \E n \in 1..Len(heap) : RLt(One, RSum(heap[n].strategy_sum))

InUnit(x) == RLe(Zero, x) /\ RLe(x, One)

\* C7: the traversal starts with p1 = p2 = 1; the call for action a gets the
\* acting player's reach probability multiplied by strategy[a] and the other
\* player's unchanged; both stay in [0,1] and never grow from h to h+a
C7_ReachProbabilities ==
    /\ stack # <<>> => stack[1].p1 = One /\ stack[1].p2 = One
    /\ \A k \in 1..Len(stack) : InUnit(stack[k].p1) /\ InUnit(stack[k].p2)
    /\ \A k \in 1..(Len(stack) - 1) :
          LET f == stack[k]
              c == stack[k + 1]
              s == heap[f.node].strategy[f.a + 1]
          IN  /\ c.h = f.h \o (IF prog = "kuhn" THEN <<ACTIONS_[f.a + 1]>>
                               ELSE Dudo_action(f.a))
              /\ IF Len(f.h) % 2 = 0
                 THEN c.p1 = RMul(f.p1, s) /\ c.p2 = f.p2
                 ELSE c.p2 = RMul(f.p2, s) /\ c.p1 = f.p1
              /\ RLe(c.p1, f.p1) /\ RLe(c.p2, f.p2)

\* a call two actions deep, both players' reach probabilities below 1, under
\* a strategy that is not uniform
C7_Witness ==
    /\ prog = "kuhn" /\ Len(stack) = 3
    /\ RLt(stack[3].p1, One) /\ RLt(stack[3].p2, One)
    /\ stack[3].p1 # Rat(1, 2)

LookedNode ==
    IF lookup'.path = "solution" THEN heap'[solution'[looked'.key]]
    ELSE heap'[tree'[looked'.key]]

\* C8: get_average_strategy returns one entry per legal action of the node,
\* entry a is strategy_sum[a] / sum(strategy_sum) when the sum is > 0 and
\* 1/action_count otherwise, and the entries sum to 1
C8_AverageStrategy ==
    [][lookups' = lookups + 1 /\ lookup'.outcome = "strategy" =>
          LET node == LookedNode
              n == action_count(node)
              total == RSum(node.strategy_sum)
          IN  /\ Len(lookup'.strategy) = n
              /\ RSum(lookup'.strategy) = One
              /\ \A a \in 1..n :
                    IF RLt(Zero, total)
                    THEN RMul(lookup'.strategy[a], total) = node.strategy_sum[a]
                    ELSE lookup'.strategy[a] = Rat(1, n)]_vars

\* C9: compute_expected_value leaves the store as it is: the same keys, and
\* regret_sum, strategy and strategy_sum of every node unchanged
C9_ExtractionReadsOnly ==
    [][pc = "ev" => DOMAIN tree' = DOMAIN tree /\ tree' = tree /\ heap' = heap]_vars

\* C10: asking for the average strategy of a key that was never visited
\* fails with a not-found error, yields no distribution and does not add the
\* key to the store or to the solution map
C10_UnknownKeyFails ==
    [][lookups' = lookups + 1 /\ ~looked'.known =>
          /\ lookup'.outcome = "not_found"
          /\ DOMAIN tree' = DOMAIN tree
          /\ DOMAIN solution' = DOMAIN solution]_vars

\* the result table of kuhn.cc: what player 1 wins at the terminal history h
\* when the cards are cs
ResultTable(h, cs) ==
    LET higher == IF cs[1] > cs[2] THEN 1 ELSE -1
    IN  CASE h = <<"c", "c">> -> higher
          [] h = <<"c", "b", "c">> -> -1
          [] h = <<"c", "b", "b">> -> 2 * higher
          [] h = <<"b", "c">> -> 1
          [] h = <<"b", "b">> -> 2 * higher

Showdown(h) == h \in {<<"c", "c">>, <<"b", "b">>, <<"c", "b", "b">>}

SwapCards(cs) == <<cs[2], cs[1], cs[3]>>

\* this step is the base case of cfr
BaseStep ==
    /\ prog = "kuhn" /\ pc = "cfr" /\ stack # <<>> /\ Top.stage = "call"
    /\ Len(stack') < Len(stack)

\* C11: at each of the terminal histories cc, bc, bb, cbc, cbb and for every
\* deal, get_utility returns what the player who would act next wins, by the
\* result table: player 1's winnings after two actions, player 2's (their
\* negation) after three; with the two cards swapped a showdown pays the
\* negation; and handle_terminal_state attributes the table's value to
\* player 1 and its negation to player 2, so the two stacks change by
\* opposite amounts
C11_TerminalPayoffs ==
    [][/\ BaseStep =>
            LET h == Top.h
                node == heap'[tree'[info_set_of(cards, h)]]
                p1_wins == ResultTable(h, cards)
            IN  /\ h \in TERMINAL_HISTORIES
                /\ ret' = FromInt(IF Len(h) % 2 = 0 THEN p1_wins ELSE -p1_wins)
                /\ Showdown(h) => get_utility(node, SwapCards(cards)) = RNeg(ret')
       /\ pc = "idle" /\ pc' = "hand" =>
            LET p1_wins == ResultTable(hand'.h, hand'.cards)
            IN  /\ hand'.res = (IF hand'.p1 = "Player" THEN p1_wins ELSE -p1_wins)
                /\ hand'.player = hand'.res
                /\ hand'.player + hand'.bot = 0]_vars

\* a hand the bot opened ended after check, bet, bet with the higher card
\* with the player, who moved second and wins 2
C11_Witness ==
    /\ pc = "hand" /\ hand.h = <<"c", "b", "b">> /\ hand.p1 = "Bot"
    /\ hand.cards[2] > hand.cards[1] /\ hand.res = 2

\* the 12 information sets of the header of kuhn.cc: the card of the player
\* to move, then the history
DecisionInfosets ==
    {to_string(c) \o h : c \in 1..3, h \in {<<>>, <<"c", "b">>, <<"c">>, <<"b">>}}

\* the number of traversals recorded in f
Total(f) ==
    f[<<1, 2, 3>>] + f[<<1, 3, 2>>] + f[<<2, 1, 3>>]
       + f[<<2, 3, 1>>] + f[<<3, 1, 2>>] + f[<<3, 2, 1>>]

\* C12: train deals by cycling through the permutations: while it runs the
\* numbers of traversals of any two of the 6 deals differ by at most 1 and
\* add up to the number of iterations started; once train(T) has returned
\* there were T + 6 traversals, every deal was traversed at least once, and
\* the store holds a decision node for each of the 12 information sets
C12_PermutationCycling ==
    prog = "kuhn" =>
       /\ \A d1, d2 \in Deals : dealt[d1] - dealt[d2] <= 1
       /\ pc \in {"train", "cfr"} =>
             Total(dealt) = (IF pc = "cfr" THEN i + 1 ELSE i)
       /\ trained /\ pc \notin {"train", "cfr"} =>
             /\ i = T + 6
             /\ \A d \in Deals : dealt[d] >= 1
             /\ \A k \in DecisionInfosets :
                   k \in DOMAIN tree /\ ~is_terminal(heap[tree[k]])

\* train(2) has returned: two deals were traversed twice, the others once
C12_Witness ==
    /\ prog = "kuhn" /\ trained /\ pc = "idle" /\ T = 2
    /\ dealt[<<1, 2, 3>>] = 2 /\ dealt[<<1, 3, 2>>] = 2 /\ dealt[<<3, 2, 1>>] = 1

\* the 6 deals, in any order
DealList ==
    <<<<1, 2, 3>>, <<2, 1, 3>>, <<3, 1, 2>>, <<1, 3, 2>>, <<2, 3, 1>>, <<3, 2, 1>>>>

\* the value of the deal d for player 1 under the average strategies of the
\* store, from the empty history
DealValue(d) ==
    compute_terminal_payoffs([tree |-> tree, heap |-> heap], d, <<>>).val

\* C13: compute_expected_value evaluates each of the 6 deals exactly once,
\* from the empty history, and adds a sixth of its value: no deal is
\* evaluated twice while it runs, and when it returns every deal has been
\* evaluated once and EV is the sum over the 6 deals of value / 6, whether or
\* not the Solver was trained and for how long
C13_ExpectedValue ==
    /\ [](prog = "kuhn" /\ pc = "ev" =>
            /\ \A d \in Deals : evaluated[d] <= 1
            /\ Total(evaluated) = ev_i)
    /\ [][/\ pc = "ev" /\ pc' = "ev" /\ ev_i' = ev_i + 1 =>
               /\ evaluated[ev_cards] = 0 /\ evaluated'[ev_cards] = 1
               /\ EV' = RAdd(EV, RDiv(DealValue(ev_cards), FromInt(6)))
          /\ pc = "ev" /\ pc' = "idle" =>
               /\ \A d \in Deals : evaluated[d] = 1
               /\ EV = RSum([k \in 1..6 |-> RDiv(DealValue(DealList[k]), FromInt(6))])]_vars

\* the expected value of a trained Solver has been computed and is not that
\* of the uniform strategies, which is 0
C13_Witness ==
    /\ prog = "kuhn" /\ pc = "idle" /\ trained
    /\ \A d \in Deals : evaluated[d] = 1
    /\ EV # Zero

\* C14: in Dudo the node of the opening information set (empty history) has
\* the 12 claims as its actions, every other node that is not terminal has
\* 13, the claims and Dudo, so Dudo can answer the very first claim; and the
\* action count of a node stays what it was at its creation
C14_ActionCounts ==
    /\ [](prog = "dudo" =>
            \A n \in 1..Len(heap) :
               ~Dudo_is_terminal(heap[n]) =>
                  heap[n].n_actions =
                     (IF substr(heap[n].info_set, 1) = <<>>
                      THEN Dudo_NUM_ACTIONS - 1 ELSE Dudo_NUM_ACTIONS))
    /\ [][prog = "dudo" =>
            \A n \in 1..Len(heap) : heap'[n].n_actions = heap[n].n_actions]_vars

\* the allocations that the RESULTS comment of war.cc names as unbalanced
NamedUnbalanced == {<<"5", "0", "0">>, <<"0", "1", "4">>}

\* C16: in no iteration of train, from the first one of the first epoch on,
\* is the action get_action chose for either player (a0, a1) one of the
\* unbalanced allocations (5,0,0) and (0,1,4)
C16_NoUnbalancedPick ==
    prog = "war" /\ war.a0 # -1 =>
       /\ War_actions[war.a0 + 1] \notin NamedUnbalanced
       /\ War_actions[war.a1 + 1] \notin NamedUnbalanced

\* the arrays of player p (from 0) are all zero
ArraysZero(p) ==
    \A a \in 1..Rps_NUM_ACTIONS :
       /\ rps.regret_sum[p + 1][a] = Zero
       /\ rps.strategy[p + 1][a] = Zero
       /\ rps.strategy_sum[p + 1][a] = Zero
       /\ rps.avg_strategy[p + 1][a] = Zero

\* C18: at the start of every epoch of rps.cc, when main has zeroed the
\* arrays and train is about to run, regret_sum, strategy, strategy_sum and
\* avg_strategy are zero for player p = 0 and for player p = 1
C18_EpochStartsFromZero ==
    prog = "rps" /\ pc = "train" /\ i = 0 => ArraysZero(0) /\ ArraysZero(1)

\* C19: every iteration of train of rps.cc adds to regret_sum[p][a] the
\* payoff of action a minus the payoff of the action player p played, both
\* from the payoff table of player p against the action the opponent played:
\* an amount in [-2, 2] that is 0 for the action played
C19_RegretIncrement ==
    [][prog = "rps" /\ pc = "train" /\ i' = i + 1 =>
          \A p \in 0..1 : \A a \in 0..(Rps_NUM_ACTIONS - 1) :
             LET added == RSub(rps'.regret_sum[p + 1][a + 1], rps.regret_sum[p + 1][a + 1])
                 played == IF p = 0 THEN rps'.j ELSE rps'.k
                 table == Rps_utility(rps'.j, rps'.k)[p + 1]
             IN  /\ added = FromInt(table[a + 1] - table[played + 1])
                 /\ RLe(FromInt(-2), added) /\ RLe(added, FromInt(2))
                 /\ (a = played => added = Zero)]_vars

\* the number a digit stands for
DigitValue(c) == CHOOSE k \in 0..9 : DIGITS[k + 1] = c

\* this step is the base case of cfr of dudo.cc
Dudo_BaseStep ==
    /\ prog = "dudo" /\ pc = "cfr" /\ stack # <<>> /\ Top.stage = "call"
    /\ Len(stack') < Len(stack)

\* C17: at a terminal information set that cfr builds (a die digit, claims
\* of two characters, then D) get_utility takes n to be the count and r the
\* rank of the last claim before D, as numbers, counts the dice among
\* dice[0], dice[1] that show r or 1, and returns diff = count - n when it is
\* positive, -diff when it is negative, and 1 when it is 0
C17_DudoUtility ==
    [][Dudo_BaseStep =>
          LET key == to_string(dice[(Len(Top.h) % 2) + 1]) \o Top.h
              last == Len(key)
              n == DigitValue(key[last - 2])
              r == DigitValue(key[last - 1])
              rank_count == (IF dice[1] = r \/ dice[1] = 1 THEN 1 ELSE 0)
                            + (IF dice[2] = r \/ dice[2] = 1 THEN 1 ELSE 0)
              diff == rank_count - n
          IN  /\ key[last] = "D"
              /\ ret' = FromInt(IF diff > 0 THEN diff
                                ELSE IF diff < 0 THEN -diff ELSE 1)]_vars

====
